---- MODULE Spec2Model ----
(***************************************************************************)
(* Forks & Fortunes: grid-sweep restaurant discovery and quality scoring.  *)
(* Model of src/restaurant_quality.py (RestaurantQualityAnalyzer) and of   *)
(* the paginating client, the sweep and the per-city batch of              *)
(* src/restaurant_analyzer.py (RestaurantAnalyzer).                        *)
(*                                                                         *)
(* Numbers.  Ratings are tenths of a star (4.7 -> 47).  A score is an      *)
(* exact rational kept as an integer numerator: 1e-5 stars after the       *)
(* credibility step, 1e-7 stars after the price step, hundredths after     *)
(* round(score, 2).  Coordinates of places are micro-degrees.  Grid        *)
(* radius and step are quarter kilometres (0.75 km -> 3).                  *)
(***************************************************************************)
EXTENDS Integers, Sequences, FiniteSets, TLC

VARIABLES
    op,                 \* entry point exercised by this run
    pc,                 \* position of the running call
    restaurant,         \* argument of _calculate_quality_score
    base,               \* score after the credibility step (1e-5 stars)
    quality_score,      \* value returned by _calculate_quality_score
    lat_c,              \* centre latitude of the sweep (whole degrees)
    search_radius_km,   \* sweep radius (quarter km)
    search_step_km,     \* sweep step (quarter km)
    dx, dy,             \* loop variables of the grid sweep
    all_restaurants,    \* records accumulated by the sweep
    search_points,      \* number of points searched by the sweep
    queried,            \* offsets for which a search was issued, in order
    point_failed,       \* a failed query ended the last finished search of the sweep
    df,                 \* value returned by the sweep
    max_pages,          \* max_pages of the running search
    restaurants,        \* records accumulated by the running search
    next_page_token,    \* token of the last response of the running search
    page_count,         \* page_count of the running search
    page_requests,      \* requests sent to the provider by the running search
    delays,             \* time.sleep(2) calls made by the running search
    last_status,        \* status of the last response of a directly called search
    failed_at,          \* page whose request met a transport failure (0: none)
    fetched,            \* raw places of every response received by the running search
    sent,               \* parameters of the last request of a directly called search
    response_token,     \* next_page_token of the last response of a directly called search
    result,             \* value returned by a directly called search
    metrics,            \* value returned by calculate_city_quality_metrics
    geocode,            \* what the last get_city_center call met
    cities,             \* argument of analyze_cities_with_quality
    city,               \* position in `cities` of the city being analyzed
    results,            \* rows collected by analyze_cities_with_quality
    near_point          \* get_restaurants_near_point run beside a quality search

scoreVars  == <<restaurant, base, quality_score>>
sweepVars  == <<lat_c, search_radius_km, search_step_km, dx, dy,
                all_restaurants, search_points, queried, point_failed, df>>
searchVars == <<max_pages, restaurants, next_page_token, page_count,
                page_requests, delays, last_status, failed_at, fetched,
                sent, response_token, result>>
batchVars  == <<metrics, geocode, cities, city, results>>
vars == <<op, pc, scoreVars, sweepVars, searchVars, batchVars, near_point>>

(***************************************************************************)
(* Bounds of the model.                                                    *)
(***************************************************************************)
MaxReviewCount == 104    \* review counts 0..MaxReviewCount (and 500) are scored
MaxRecords     == 2      \* places the provider returns in one run
MaxPagesArg    == 3      \* max_pages arguments 0..MaxPagesArg of a direct search
MaxTokenPages  == 3      \* pages of one search that can carry a next_page_token
MaxRows        == 3      \* rows of a DataFrame given to the metrics

(***************************************************************************)
(* Program constants.                                                      *)
(***************************************************************************)
None          == -1      \* Python None in an Optional numeric field
MAX_API_PAGES == 10      \* Config.MAX_API_PAGES

NoKey == "<absent>"      \* a key missing from the provider's JSON

(***************************************************************************)
(* _calculate_quality_score                                                *)
(***************************************************************************)
Min(a, b) == IF a <= b THEN a ELSE b

\* Python truthiness of an Optional[int]: None and 0 are both false.
Truthy(x) == x # None /\ x # 0

RatingAbsentMutant(rating) == rating = None \/ rating = 0

\* `if restaurant.rating is None: return None`
RatingAbsent(rating) == rating = None

CredibilityStepBonus(score, user_ratings_total) ==
    IF Truthy(user_ratings_total)
    THEN score * (10000 + 30 * Min(user_ratings_total, 100))
    ELSE score * 10000

\* Lines 126-131: the score (tenths in, 1e-5 stars out) after the
\* credibility step, guarded by `if restaurant.user_ratings_total:`.
CredibilityStep(score, user_ratings_total) ==
    IF Truthy(user_ratings_total)
    THEN score * (7000 + 30 * Min(user_ratings_total, 100))
    ELSE score * 10000

PriceMultiplierMutant(price_level) ==
    IF price_level = None THEN 100
    ELSE IF price_level \in {2, 3, 4} THEN 105
    ELSE 100

\* Lines 133-140: the factor (in hundredths) of the price step.
PriceMultiplier(price_level) ==
    IF price_level = None THEN 100
    ELSE IF price_level \in {2, 3} THEN 105
    ELSE IF price_level = 4 THEN 102
    ELSE 100

Round2Down(score) == {score \div 100000}

\* Line 142, round(score, 2), of a score in 1e-7 stars: the hundredths it
\* can round to.  Off a tie the result is the nearest hundredth.  On an
\* exact decimal tie the double that the multiplications produced lies
\* above or below the tie, so either neighbour can come out.
Round2(score) ==
    LET fl == score \div 100000
        rm == score % 100000
    IN  IF rm < 50000 THEN {fl}
        ELSE IF rm > 50000 THEN {fl + 1}
        ELSE {fl, fl + 1}

\* The values _calculate_quality_score can return for a record.
QualityScores(r) ==
    IF RatingAbsent(r.rating) THEN {None}
    ELSE Round2(CredibilityStep(r.rating, r.user_ratings_total)
                * PriceMultiplier(r.price_level))

(***************************************************************************)
(* Inputs of the scorer.                                                   *)
(***************************************************************************)
Ratings      == {None} \cup 0..50
ReviewCounts == {None} \cup 0..MaxReviewCount \cup {500}
PriceLevels  == {None} \cup 0..4

ScoredInputs ==
    [rating : Ratings, user_ratings_total : ReviewCounts, price_level : PriceLevels]

NoRecord == [rating |-> None, user_ratings_total |-> None, price_level |-> None]

(***************************************************************************)
(* The place search provider (external): what one request can meet.       *)
(***************************************************************************)
\* Place records of the provider's JSON.  A key the provider left out is
\* NoKey (strings) or None (numbers).  The first two are one place seen
\* from two sample points with different raw coordinates; the next two
\* are different places that both lack a place_id.
Places ==
    { [place_id |-> "a", name |-> "Alpha", lat |-> 37441901, lng |-> -122143000,
       rating |-> 45, price_level |-> 2, user_ratings_total |-> 120],
      [place_id |-> "a", name |-> "Alpha Cafe", lat |-> 37441904, lng |-> -122143000,
       rating |-> 44, price_level |-> 2, user_ratings_total |-> 121],
      [place_id |-> NoKey, name |-> "Beta", lat |-> 37450000, lng |-> -122150000,
       rating |-> None, price_level |-> 3, user_ratings_total |-> 10],
      [place_id |-> NoKey, name |-> NoKey, lat |-> 37460000, lng |-> -122160000,
       rating |-> 0, price_level |-> None, user_ratings_total |-> 0] }

Statuses == {"OK", "ZERO_RESULTS", "OVER_QUERY_LIMIT", "REQUEST_DENIED"}
Tokens   == {"t1", "t2"}

NoStatus == "<none>"     \* no response observed

RECURSIVE SeqsUpTo(_, _)
\* The sequences over S of length at most n.
SeqsUpTo(S, n) ==
    IF n = 0 THEN {<<>>}
    ELSE LET shorter == SeqsUpTo(S, n - 1)
         IN  shorter \cup {Append(q, x) : q \in {t \in shorter : Len(t) = n - 1}, x \in S}

\* The JSON bodies the request for page `page` can be answered with,
\* carrying at most n places.
Responses(n, page) ==
    [status : Statuses, results : SeqsUpTo(Places, n),
     next_page_token : (IF page <= MaxTokenPages THEN Tokens ELSE {}) \cup {NoKey}]

\* requests.get(...).json() either raises requests.RequestException
\* (timeout, connection error) or yields a body.
TransportFailure == [status |-> "<transport failure>", results |-> <<>>,
                     next_page_token |-> NoKey]

Outcomes(n, page) == Responses(n, page) \cup {TransportFailure}

(***************************************************************************)
(* Parsing a response.                                                     *)
(***************************************************************************)
\* Which of the two paginating clients an entry point runs.
Client ==
    IF op \in {"analyze_city_restaurant_quality", "get_restaurants_with_quality",
               "analyze_cities_with_quality"}
    THEN "quality" ELSE "near_point"

InSweep == op \in {"analyze_city_restaurant_quality", "get_restaurants_within_radius",
                   "analyze_cities_with_quality"}

\* analyze_cities_with_quality runs the quality sweep once per city.
InBatch == op = "analyze_cities_with_quality"

\* restaurant_quality.py lines 100-113: the RestaurantQuality records one
\* place can parse to (one per value the scorer can return).
ParseQuality(place) ==
    { [place_id |-> IF place.place_id = NoKey THEN "" ELSE place.place_id,
       name |-> IF place.name = NoKey THEN "Unnamed" ELSE place.name,
       lat |-> place.lat, lng |-> place.lng,
       rating |-> place.rating, price_level |-> place.price_level,
       user_ratings_total |-> place.user_ratings_total,
       quality_score |-> q] : q \in QualityScores(place) }

\* restaurant_analyzer.py lines 78-83 and 99-104: the (lat, lng, name) triple.
ParsePoint(place) ==
    { [lat |-> place.lat, lng |-> place.lng,
       name |-> IF place.name = NoKey THEN "Unnamed" ELSE place.name] }

ParsePlace(client, place) ==
    IF client = "quality" THEN ParseQuality(place) ELSE ParsePoint(place)

RECURSIVE ParseAll(_, _)
\* The lists the `results` of a response can parse to, in their order.
ParseAll(client, places) ==
    IF places = <<>> THEN {<<>>}
    ELSE {<<r>> \o rest : r \in ParsePlace(client, Head(places)),
                          rest \in ParseAll(client, Tail(places))}

(***************************************************************************)
(* The grid.                                                               *)
(***************************************************************************)
\* Centre latitudes and grids <<radius, step>> (quarter km) of the sweeps.
CenterLats == {0, 37}
GridSpecs  == {<<3, 4>>, <<4, 4>>}

\* Latitude of the cities of Config.CITIES_TO_ANALYZE (whole degrees).
CityLats == {37}

\* cos(radians(lat))^2 in hundredths, for the centre latitudes of the model.
CosSqPctEquator(lat) == 100

CosSqPct(lat) == CASE lat = 0 -> 100 [] lat = 37 -> 64 [] lat = 60 -> 25

Abs(x) == IF x < 0 THEN -x ELSE x

\* steps = int(search_radius_km / search_step_km): int() truncates toward
\* zero.  A zero step never gets here, the division raises (StartSweep).
Steps(radius, step) ==
    LET q == Abs(radius) \div Abs(step)
    IN  IF (radius < 0) # (step < 0) THEN -q ELSE q

\* `dist <= search_radius_km` for the point at offset (x, y): the haversine
\* distance of two points delta_deg * (x, y) apart, delta_deg = step / 111
\* degrees, is step * (6371 * pi / 180 / 111) * sqrt(y^2 + cos^2(lat) * x^2)
\* to the precision the sweep needs; (6371 * pi / 180 / 111)^2 = 1.0035.
InRadiusAll(lat, radius, step, x, y) == TRUE

\* A distance is never negative, so no point passes a negative radius.
InRadius(lat, radius, step, x, y) ==
    /\ radius >= 0
    /\ step * step * 10035 * (100 * y * y + CosSqPct(lat) * x * x)
           <= radius * radius * 1000000

\* The offsets of the two nested range(-steps, steps + 1) loops, dx outer.
RECURSIVE Range(_, _)
Range(lo, hi) == IF lo > hi THEN <<>> ELSE <<lo>> \o Range(lo + 1, hi)

\* range(-steps, steps) in place of range(-steps, steps + 1).
OffsetsHalfOpen(steps) ==
    LET r == Range(-steps, steps - 1)
        n == Len(r)
    IN  [i \in 1..(n * n) |-> <<r[((i - 1) \div n) + 1], r[((i - 1) % n) + 1]>>]

Offsets(steps) ==
    LET r == Range(-steps, steps)
        n == Len(r)
    IN  [i \in 1..(n * n) |-> <<r[((i - 1) \div n) + 1], r[((i - 1) % n) + 1]>>]

\* The position of offset (x, y) in the loop order.
OffsetIndex(steps, x, y) == (x + steps) * (2 * steps + 1) + (y + steps) + 1

\* The in-radius offsets after position i of the loop, in loop order.
PointsAfter(lat, radius, step, i) ==
    LET offs == Offsets(Steps(radius, step))
    IN  SelectSeq(SubSeq(offs, i + 1, Len(offs)),
                  LAMBDA o : InRadius(lat, radius, step, o[1], o[2]))

(***************************************************************************)
(* Deduplication.                                                          *)
(***************************************************************************)
RECURSIVE DropDuplicatesFrom(_, _)
\* df.drop_duplicates(subset='place_id'): keep the first row of each place_id.
DropDuplicatesFrom(rows, seen) ==
    IF rows = <<>> THEN <<>>
    ELSE IF Head(rows).place_id \in seen
         THEN DropDuplicatesFrom(Tail(rows), seen)
         ELSE <<Head(rows)>> \o DropDuplicatesFrom(Tail(rows), seen \cup {Head(rows).place_id})

\* keep='last' in place of the default keep='first'.
DropDuplicatesKeepLast(rows) ==
    SelectSeq(rows, LAMBDA r :
        \E i \in 1..Len(rows) :
            /\ rows[i] = r
            /\ \A j \in (i + 1)..Len(rows) : rows[j].place_id # r.place_id)

\* keep=False: every row of a repeated place_id is dropped.
DropDuplicatesKeepNone(rows) ==
    SelectSeq(rows, LAMBDA r :
        Cardinality({i \in 1..Len(rows) : rows[i].place_id = r.place_id}) = 1)

DropDuplicates(rows) == DropDuplicatesFrom(rows, {})

\* round(x, 5) of a coordinate in micro-degrees, in units of 1e-5 degrees
\* (no coordinate of Places ends in 5, the one case where the double
\* nearest to the decimal decides the direction).
Round5(x) ==
    LET fl == x \div 10
        rm == x % 10
    IN  IF rm < 5 THEN fl
        ELSE IF rm > 5 THEN fl + 1
        ELSE IF fl % 2 = 0 THEN fl ELSE fl + 1

CoordKeyRaw(r) == <<r.lat, r.lng>>

\* coord_key = (round(lat, 5), round(lng, 5))
CoordKey(r) == <<Round5(r.lat), Round5(r.lng)>>

RECURSIVE UniqueByCoordFrom(_, _)
\* restaurant_analyzer.py lines 145-153.
UniqueByCoordFrom(points, seen_coords) ==
    IF points = <<>> THEN <<>>
    ELSE IF CoordKey(Head(points)) \in seen_coords
         THEN UniqueByCoordFrom(Tail(points), seen_coords)
         ELSE <<Head(points)>>
              \o UniqueByCoordFrom(Tail(points), seen_coords \cup {CoordKey(Head(points))})

UniqueByCoord(points) == UniqueByCoordFrom(points, {})

\* What the sweep returns for the accumulated records.
SweepResult(client, all) ==
    IF client = "quality" THEN DropDuplicates(all) ELSE UniqueByCoord(all)

(***************************************************************************)
(* calculate_city_quality_metrics (lines 211-251).  A mean is the exact    *)
(* rational <<sum, count>> (ratings in tenths, scores in hundredths); an   *)
(* average of None is NoMean.  The returned dict is a record whose fields  *)
(* are the keys it holds; len(df[condition]) is Len(SelectSeq(...)).       *)
(***************************************************************************)
NoMean    == <<>>
NoMetrics == <<>>     \* nothing returned yet

\* Rows of the DataFrame the metrics are computed for: records of the
\* quality sweep around the boundaries of the rating tiers, the price
\* groups and the review threshold.
MetricPlaces ==
    { [place_id |-> "m1", name |-> "M1", lat |-> 37441000, lng |-> -122143000,
       rating |-> 45, price_level |-> 4, user_ratings_total |-> 50],
      [place_id |-> "m2", name |-> "M2", lat |-> 37442000, lng |-> -122143000,
       rating |-> 44, price_level |-> 3, user_ratings_total |-> 49],
      [place_id |-> "m3", name |-> "M3", lat |-> 37443000, lng |-> -122143000,
       rating |-> 40, price_level |-> 2, user_ratings_total |-> 120],
      [place_id |-> "m4", name |-> "M4", lat |-> 37444000, lng |-> -122143000,
       rating |-> 39, price_level |-> 1, user_ratings_total |-> None],
      [place_id |-> "m5", name |-> "M5", lat |-> 37445000, lng |-> -122143000,
       rating |-> 35, price_level |-> 0, user_ratings_total |-> 10],
      [place_id |-> "m6", name |-> "M6", lat |-> 37446000, lng |-> -122143000,
       rating |-> 30, price_level |-> None, user_ratings_total |-> 0],
      [place_id |-> "m7", name |-> "M7", lat |-> 37447000, lng |-> -122143000,
       rating |-> 29, price_level |-> 2, user_ratings_total |-> 500],
      [place_id |-> "m8", name |-> "M8", lat |-> 37448000, lng |-> -122143000,
       rating |-> None, price_level |-> 3, user_ratings_total |-> 10],
      [place_id |-> "m9", name |-> "M9", lat |-> 37449000, lng |-> -122143000,
       rating |-> None, price_level |-> None, user_ratings_total |-> None] }

MetricRows == UNION {ParseQuality(place) : place \in MetricPlaces}

KeepNa(rows) == rows

\* df.dropna(subset=['rating'])
DropNa(rows) == SelectSeq(rows, LAMBDA r : r.rating # None)

RECURSIVE Sum(_)
Sum(values) == IF values = <<>> THEN 0 ELSE Head(values) + Sum(Tail(values))

\* Series.mean() of a column without nulls.
Mean(values) == <<Sum(values), Len(values)>>

\* A comparison of a column with a number is False on a null.
AtLeast(x, k) == x # None /\ x >= k

BelowOrEqual(x, k) == x # None /\ x <= k

Below(x, k) == x # None /\ x < k

HighRatedAbove(rating) == rating > 40

\* rated_df['rating'] >= 4.0
HighRated(rating) == AtLeast(rating, 40)

\* rated_df['rating'] < 3.0
LowRated(rating) == Below(rating, 30)

EmptyMetricsNaN ==
    [total_restaurants |-> 0, avg_rating |-> <<0, 0>>,
     avg_quality_score |-> <<0, 0>>,
     high_rated_count |-> 0, low_rated_count |-> 0, expensive_count |-> 0,
     budget_count |-> 0, well_reviewed_count |-> 0,
     quality_categories |-> <<>>]

\* Lines 213-224: the dict returned for an empty DataFrame.
EmptyMetrics ==
    [total_restaurants |-> 0, avg_rating |-> NoMean, avg_quality_score |-> NoMean,
     high_rated_count |-> 0, low_rated_count |-> 0, expensive_count |-> 0,
     budget_count |-> 0, well_reviewed_count |-> 0,
     quality_categories |-> <<>>]

\* Lines 241-247: the tiers, by label.
QualityRanges(rated_df) ==
    [label \in {"Excellent (4.5+)", "Very Good (4.0-4.4)", "Good (3.5-3.9)",
                "Average (3.0-3.4)", "Below Average (<3.0)"} |->
        CASE label = "Excellent (4.5+)" ->
                 Len(SelectSeq(rated_df, LAMBDA r : AtLeast(r.rating, 45)))
          [] label = "Very Good (4.0-4.4)" ->
                 Len(SelectSeq(rated_df, LAMBDA r : AtLeast(r.rating, 40) /\ Below(r.rating, 45)))
          [] label = "Good (3.5-3.9)" ->
                 Len(SelectSeq(rated_df, LAMBDA r : AtLeast(r.rating, 35) /\ Below(r.rating, 40)))
          [] label = "Average (3.0-3.4)" ->
                 Len(SelectSeq(rated_df, LAMBDA r : AtLeast(r.rating, 30) /\ Below(r.rating, 35)))
          [] label = "Below Average (<3.0)" ->
                 Len(SelectSeq(rated_df, LAMBDA r : Below(r.rating, 30)))]

\* calculate_city_quality_metrics(df): the key quality_categories is set
\* (line 249) only when some row is rated.
CalculateCityQualityMetrics(rows) ==
    IF rows = <<>> THEN EmptyMetrics
    ELSE LET rated_df == DropNa(rows)
             avg_r == IF rated_df # <<>>
                      THEN Mean([i \in 1..Len(rated_df) |-> rated_df[i].rating])
                      ELSE NoMean
             avg_q == IF rated_df # <<>>
                      THEN Mean([i \in 1..Len(rated_df) |-> rated_df[i].quality_score])
                      ELSE NoMean
             high  == Len(SelectSeq(rated_df, LAMBDA r : HighRated(r.rating)))
             low   == Len(SelectSeq(rated_df, LAMBDA r : LowRated(r.rating)))
             exp   == Len(SelectSeq(rows, LAMBDA r : r.price_level \in {3, 4}))
             bud   == Len(SelectSeq(rows, LAMBDA r : r.price_level \in {1, 2}))
             well  == Len(SelectSeq(rows, LAMBDA r : AtLeast(r.user_ratings_total, 50)))
         IN  IF rated_df # <<>>
             THEN [total_restaurants |-> Len(rows), avg_rating |-> avg_r,
                   avg_quality_score |-> avg_q, high_rated_count |-> high,
                   low_rated_count |-> low, expensive_count |-> exp,
                   budget_count |-> bud, well_reviewed_count |-> well,
                   quality_categories |-> QualityRanges(rated_df)]
             ELSE [total_restaurants |-> Len(rows), avg_rating |-> avg_r,
                   avg_quality_score |-> avg_q, high_rated_count |-> high,
                   low_rated_count |-> low, expensive_count |-> exp,
                   budget_count |-> bud, well_reviewed_count |-> well]

(***************************************************************************)
(* The paginating search: get_restaurants_with_quality and                 *)
(* get_restaurants_near_point.  Each action is one request to the provider *)
(* and everything the code does until the next request.                    *)
(***************************************************************************)
\* The locals of a search that has not sent a request yet.
Fresh ==
    [max_pages |-> None, restaurants |-> <<>>, next_page_token |-> NoKey,
     page_count |-> 0, page_requests |-> 0, delays |-> 0, last_status |-> NoStatus,
     failed_at |-> 0, fetched |-> <<>>, sent |-> "<none>",
     response_token |-> "<none>"]

Current ==
    [max_pages |-> max_pages, restaurants |-> restaurants,
     next_page_token |-> next_page_token, page_count |-> page_count,
     page_requests |-> page_requests, delays |-> delays, last_status |-> last_status,
     failed_at |-> failed_at, fetched |-> fetched, sent |-> sent,
     response_token |-> response_token]

SetSearch(s) ==
    /\ max_pages' = s.max_pages
    /\ restaurants' = s.restaurants
    /\ next_page_token' = s.next_page_token
    /\ page_count' = s.page_count
    /\ page_requests' = s.page_requests
    /\ delays' = s.delays
    /\ last_status' = s.last_status
    /\ failed_at' = s.failed_at
    /\ fetched' = s.fetched
    /\ sent' = s.sent
    /\ response_token' = s.response_token

FirstPageExceptRaise == "raise"

\* Lines 61-63: `except requests.RequestException: ... return []`.
FirstPageExcept == "return_empty"

NextPageExceptRaise == "raise"

NextPageExceptDiscard == "discard"

\* Lines 85-87: `except requests.RequestException: ... break`.
NextPageExcept == "break"

\* Line 65: `if response.get("status") != "OK": ... return []`.
StatusOk(status) == status = "OK"

SleepSkipped(n) == n

\* Line 80: time.sleep(2), the first statement of a turn of the loop.
Sleep(n) == n + 1

LoopConditionAnyToken(token, count, limit) == count < limit

LoopConditionMutant(token, count, limit) == token # NoKey /\ count <= limit

\* Line 79: `while next_page_token and page_count < max_pages`.
LoopCondition(token, count, limit) == token # NoKey /\ count < limit

\* `if max_pages is None: max_pages = self.config.MAX_API_PAGES`
EffectiveMaxPages(arg) == IF arg = None THEN MAX_API_PAGES ELSE arg

\* last_status and sent are observations, not program state; they are
\* recorded for a directly called search and left out inside a sweep.
Observed(x) == IF InSweep THEN "<none>" ELSE x

\* Places the provider can still return in this run.
Budget == MaxRecords - (Len(all_restaurants) + Len(fetched))

(***************************************************************************)
(* The centre of a city: DataCollector.get_city_center.                    *)
(***************************************************************************)
NoGeocode == "<none>"   \* get_city_center has not been called

\* geolocator.geocode returns a location, returns None or raises.
GeocodeOutcomes == {"location", "not_found", "raises"}

GetCityCenterFallback(outcome, location) == location

\* data_collector.py lines 145-154: the latitude returned; a missing
\* location raises ValueError, and every exception ends in (None, None).
GetCityCenter(outcome, location) ==
    IF outcome = "location" THEN location ELSE None

(***************************************************************************)
(* Rows of analyze_cities_with_quality.                                    *)
(***************************************************************************)
\* Lines 256-267.
NoCoordinatesRow(name) ==
    [City |-> name, restaurant_count |-> None, avg_rating |-> NoMean,
     avg_quality_score |-> NoMean, high_rated_count |-> None,
     expensive_count |-> None, well_reviewed_count |-> None,
     center_lat |-> None, status |-> "error: no coordinates"]

\* Lines 279-290.
NoRestaurantsRow(name, lat) ==
    [City |-> name, restaurant_count |-> 0, avg_rating |-> NoMean,
     avg_quality_score |-> NoMean, high_rated_count |-> 0,
     expensive_count |-> 0, well_reviewed_count |-> 0,
     center_lat |-> lat, status |-> "success - no restaurants"]

\* Lines 306-321; the names of the CSV and map files written for the city
\* (lines 297-304) are left out of the row.
SuccessRow(name, lat, quality_metrics) ==
    [City |-> name, restaurant_count |-> quality_metrics.total_restaurants,
     avg_rating |-> quality_metrics.avg_rating,
     avg_quality_score |-> quality_metrics.avg_quality_score,
     high_rated_count |-> quality_metrics.high_rated_count,
     low_rated_count |-> quality_metrics.low_rated_count,
     expensive_count |-> quality_metrics.expensive_count,
     budget_count |-> quality_metrics.budget_count,
     well_reviewed_count |-> quality_metrics.well_reviewed_count,
     center_lat |-> lat, status |-> "success"]

\* Lines 330-343: the row of `except Exception as e`.
ExceptionRow(name, message) ==
    [City |-> name, restaurant_count |-> None, avg_rating |-> NoMean,
     avg_quality_score |-> NoMean, high_rated_count |-> None,
     expensive_count |-> None, well_reviewed_count |-> None,
     center_lat |-> None, status |-> message]

\* Lines 297-304: the CSV and the map of the city are written before its
\* row is appended; a write that fails raises OSError, which line 330
\* catches (the message stands for str(e)).
WriteOutcomes == {"written", "raises"}

CityDoneAbort(row) ==
    /\ results' = Append(results, row)
    /\ city' = city + 1
    /\ pc' = IF city < Len(cities) /\ row.restaurant_count # None
             THEN "city" ELSE "returned"
    /\ dx' = 0 /\ dy' = 0
    /\ all_restaurants' = <<>>
    /\ search_points' = 0
    /\ queried' = <<>>
    /\ point_failed' = FALSE
    /\ df' = <<>>
    /\ lat_c' = None
    /\ metrics' = NoMetrics

\* results.append(row) and the step of the `for city in cities` loop; the
\* locals of the city's sweep are gone.
CityDone(row) ==
    /\ results' = Append(results, row)
    /\ city' = city + 1
    /\ pc' = IF city < Len(cities) THEN "city" ELSE "returned"
    /\ dx' = 0 /\ dy' = 0
    /\ all_restaurants' = <<>>
    /\ search_points' = 0
    /\ queried' = <<>>
    /\ point_failed' = FALSE
    /\ df' = <<>>
    /\ lat_c' = None
    /\ metrics' = NoMetrics

(***************************************************************************)
(* The loops of a sweep (restaurant_quality.py lines 158-197,              *)
(* restaurant_analyzer.py lines 129-156).                                  *)
(***************************************************************************)
\* The loops from position i on, with q the offsets searched, `all` the
\* records accumulated and n the points counted so far: the next offset
\* within the radius is searched; after the last one the sweep merges
\* and returns, and analyze_cities_with_quality turns the DataFrame into
\* the city's row (lines 277-321).
Advance(lat, i, q, all, n, failed) ==
    LET steps == Steps(search_radius_km, search_step_km)
        rest  == PointsAfter(lat, search_radius_km, search_step_km, i)
        quality_df == SweepResult(Client, all)
    IN  IF rest # <<>>
        THEN /\ dx' = rest[1][1]
             /\ dy' = rest[1][2]
             /\ queried' = Append(q, rest[1])
             /\ all_restaurants' = all
             /\ search_points' = n
             /\ point_failed' = failed
             /\ lat_c' = lat
             /\ pc' = "first_page"
             /\ UNCHANGED <<df, metrics, city, results>>
        ELSE IF ~InBatch
        THEN /\ dx' = steps
             /\ dy' = steps
             /\ queried' = q
             /\ all_restaurants' = all
             /\ search_points' = n
             /\ point_failed' = failed
             /\ lat_c' = lat
             /\ pc' = "done"
             /\ df' = quality_df
             /\ UNCHANGED <<metrics, city, results>>
        ELSE IF quality_df = <<>>
        THEN CityDone(NoRestaurantsRow(cities[city], lat))
        ELSE \E written \in WriteOutcomes :
               CityDone(IF written = "written"
                        THEN SuccessRow(cities[city], lat,
                                        CalculateCityQualityMetrics(quality_df))
                        ELSE ExceptionRow(cities[city], "error: write failed"))

\* The grid parameters and the loops up to the first offset within the
\* radius.  Neither sweep looks at the grid parameters before it uses
\* them: with a zero step the division of line 149 raises
\* ZeroDivisionError, which analyze_cities_with_quality catches (line
\* 330); any other pair goes into the loops.
BeginSweep(lat) ==
    IF search_step_km = 0
    THEN IF InBatch
         THEN CityDone(ExceptionRow(cities[city], "error: float division by zero"))
         ELSE /\ pc' = "raised"
              /\ lat_c' = lat
              /\ all_restaurants' = <<>>
              /\ search_points' = 0
              /\ UNCHANGED <<dx, dy, queried, point_failed, df, metrics, city,
                             results>>
    ELSE Advance(lat, 0, <<>>, <<>>, 0, point_failed)

\* An exception leaves the search; neither sweep catches it.
Raise(s) ==
    /\ pc' = "raised"
    /\ SetSearch(s)
    /\ UNCHANGED <<op, batchVars, scoreVars, sweepVars, result>>

\* `return` of a search with `list`.  Called directly, the list is the
\* result.  Inside a sweep (lines 166-168) the list is accumulated and the
\* loops go on to the next offset within the radius; after the last one
\* the sweep deduplicates and returns (lines 170-197).
Return(list, s, failed) ==
    IF ~InSweep
    THEN /\ pc' = "returned"
         /\ result' = list
         /\ SetSearch(s)
         /\ UNCHANGED <<op, batchVars, scoreVars, sweepVars>>
    ELSE /\ SetSearch(Fresh)
         /\ Advance(lat_c,
                    OffsetIndex(Steps(search_radius_km, search_step_km), dx, dy),
                    queried, all_restaurants \o list, search_points + 1, failed)
         /\ UNCHANGED <<op, scoreVars, search_radius_km, search_step_km, result,
                        geocode, cities>>

\* After a page has been processed: the loop test of line 79.
AfterPage(s) ==
    IF LoopCondition(s.next_page_token, s.page_count, s.max_pages)
    THEN /\ pc' = "paging"
         /\ SetSearch(s)
         /\ UNCHANGED <<op, batchVars, scoreVars, sweepVars, result>>
    ELSE Return(s.restaurants, s, FALSE)

\* Lines 46-79: the first request and its response.
FirstPageOn(o) ==
         LET s0 == [Fresh EXCEPT !.max_pages = EffectiveMaxPages(max_pages),
                                 !.page_requests = 1,
                                 !.sent = Observed("location")]
         IN  IF o = TransportFailure
             THEN LET s1 == [s0 EXCEPT !.failed_at = 1]
                  IN  IF FirstPageExcept = "return_empty"
                      THEN Return(<<>>, s1, TRUE)
                      ELSE Raise(s1)
             ELSE LET s1 == [s0 EXCEPT !.last_status = Observed(o.status),
                                       !.response_token = Observed(o.next_page_token),
                                       !.fetched = o.results]
                  IN  IF ~StatusOk(o.status)
                      THEN Return(<<>>, s1, TRUE)
                      ELSE \E parsed \in ParseAll(Client, o.results) :
                             AfterPage([s1 EXCEPT !.restaurants = parsed,
                                                  !.next_page_token = o.next_page_token,
                                                  !.page_count = 1])

FirstPage ==
    /\ pc = "first_page"
    /\ UNCHANGED near_point
    /\ \E o \in Outcomes(Budget, 1) : FirstPageOn(o)

\* Lines 79-93: one turn of the pagination loop.  The status of a
\* follow-up response is not looked at.
NextPageOn(o) ==
         LET s0 == [Current EXCEPT !.delays = Sleep(delays),
                                   !.page_requests = page_requests + 1,
                                   !.sent = Observed(next_page_token)]
         IN  IF o = TransportFailure
             THEN LET s1 == [s0 EXCEPT !.failed_at = page_count + 1]
                  IN  CASE NextPageExcept = "break" -> Return(restaurants, s1, TRUE)
                        [] NextPageExcept = "discard" -> Return(<<>>, s1, TRUE)
                        [] OTHER -> Raise(s1)
             ELSE \E parsed \in ParseAll(Client, o.results) :
                    AfterPage([s0 EXCEPT
                        !.restaurants = restaurants \o parsed,
                        !.next_page_token = o.next_page_token,
                        !.page_count = page_count + 1,
                        !.last_status = Observed(o.status),
                        !.response_token = Observed(o.next_page_token),
                        !.fetched = fetched \o o.results])

NextPage ==
    /\ pc = "paging"
    /\ UNCHANGED near_point
    /\ LoopCondition(next_page_token, page_count, max_pages)
    /\ \E o \in Outcomes(Budget, page_count + 1) : NextPageOn(o)

(***************************************************************************)
(* get_restaurants_near_point (restaurant_analyzer.py lines 43-109), as a  *)
(* function of its locals and the outcome of its next request.             *)
(***************************************************************************)
\* No call of get_restaurants_near_point is running beside.
NearPointIdle ==
    [pc |-> "idle", max_pages |-> None, restaurant_points |-> <<>>,
     next_page_token |-> NoKey, page_count |-> 0, page_requests |-> 0,
     delays |-> 0, sent |-> "<none>", result |-> <<>>]

\* Lines 43-57: the call with its max_pages argument, before the first request.
NearPointCall(arg) ==
    [NearPointIdle EXCEPT !.pc = "first_page", !.max_pages = arg]

\* Lines 79-83 and 100-104: the (lat, lng, name) triple of a place.
PointOf(r) ==
    [lat |-> r.lat, lng |-> r.lng,
     name |-> IF r.name = NoKey THEN "Unnamed" ELSE r.name]

PointsOf(places) == [i \in 1..Len(places) |-> PointOf(places[i])]

\* Line 89, the loop test, and line 109, the return after the loop.
NearPointLoop(t) ==
    IF t.next_page_token # NoKey /\ t.page_count < t.max_pages
    THEN [t EXCEPT !.pc = "paging"]
    ELSE [t EXCEPT !.pc = "returned", !.result = t.restaurant_points]

\* Lines 46-89: the first request and what follows its outcome.
NearPointFirst(t, o) ==
    LET t0 == [t EXCEPT !.max_pages = IF @ = None THEN MAX_API_PAGES ELSE @,
                        !.page_requests = 1,
                        !.sent = "location"]
    IN  IF o = TransportFailure \/ o.status # "OK"
        THEN [t0 EXCEPT !.pc = "returned", !.result = <<>>]
        ELSE NearPointLoop([t0 EXCEPT !.restaurant_points = PointsOf(o.results),
                                      !.next_page_token = o.next_page_token,
                                      !.page_count = 1])

NearPointNextDiscard(t, o) ==
    LET t0 == [t EXCEPT !.delays = @ + 1,
                        !.page_requests = @ + 1,
                        !.sent = t.next_page_token]
    IN  IF o = TransportFailure
        THEN [t0 EXCEPT !.pc = "returned", !.result = <<>>]
        ELSE NearPointLoop([t0 EXCEPT !.restaurant_points = @ \o PointsOf(o.results),
                                      !.next_page_token = o.next_page_token,
                                      !.page_count = @ + 1])

\* Lines 90-109: one turn of the loop; `break` goes to the return of line 109.
NearPointNext(t, o) ==
    LET t0 == [t EXCEPT !.delays = @ + 1,
                        !.page_requests = @ + 1,
                        !.sent = t.next_page_token]
    IN  IF o = TransportFailure
        THEN [t0 EXCEPT !.pc = "returned", !.result = t.restaurant_points]
        ELSE NearPointLoop([t0 EXCEPT !.restaurant_points = @ \o PointsOf(o.results),
                                      !.next_page_token = o.next_page_token,
                                      !.page_count = @ + 1])

\* Both clients send their first request and meet the same outcome.
BothFirstPage ==
    /\ pc = "first_page"
    /\ near_point.pc = "first_page"
    /\ \E o \in Outcomes(Budget, 1) :
         /\ FirstPageOn(o)
         /\ near_point' = NearPointFirst(near_point, o)

\* A client that is in its loop sends its next request; when both are,
\* they meet the same outcome.
BothNextPage ==
    /\ pc = "paging" \/ near_point.pc = "paging"
    /\ \E o \in Outcomes(Budget, page_count + 1) :
         /\ IF pc = "paging"
            THEN NextPageOn(o)
            ELSE UNCHANGED <<op, pc, scoreVars, sweepVars, searchVars, batchVars>>
         /\ near_point' = IF near_point.pc = "paging"
                          THEN NearPointNext(near_point, o)
                          ELSE near_point

(***************************************************************************)
(* The sweep: analyze_city_restaurant_quality (lines 144-197) and          *)
(* get_restaurants_within_radius (lines 119-156).                          *)
(***************************************************************************)
\* The call up to the first search.  get_restaurants_within_radius first
\* resolves the centre (lines 113-117) and returns [], (None, None) when
\* there is none; analyze_city_restaurant_quality is given the centre.
StartSweep ==
    /\ pc = "call"
    /\ UNCHANGED near_point
    /\ InSweep /\ ~InBatch
    /\ IF op = "get_restaurants_within_radius"
       THEN \E outcome \in GeocodeOutcomes, location \in CenterLats :
                LET lat == GetCityCenter(outcome, location)
                IN  /\ geocode' = outcome
                    /\ IF lat = None
                       THEN /\ pc' = "done"
                            /\ df' = <<>>
                            /\ lat_c' = None
                            /\ UNCHANGED <<dx, dy, all_restaurants, search_points,
                                           queried, point_failed, metrics, city,
                                           results>>
                       ELSE BeginSweep(lat)
       ELSE /\ geocode' = geocode
            /\ BeginSweep(lat_c)
    /\ UNCHANGED <<op, scoreVars, searchVars, search_radius_km, search_step_km,
                   cities>>

(***************************************************************************)
(* analyze_cities_with_quality (restaurant_analyzer.py lines 241-346):     *)
(* per city, the centre is resolved and the quality sweep is run with the  *)
(* configured grid.                                                        *)
(***************************************************************************)
\* Lines 250-275: one get_city_center call and what follows it up to the
\* first search of the city's sweep, or up to the city's row.
ResolveCity ==
    /\ pc = "city"
    /\ UNCHANGED near_point
    /\ InBatch
    /\ \E outcome \in GeocodeOutcomes, location \in CityLats :
           LET lat == GetCityCenter(outcome, location)
           IN  /\ geocode' = outcome
               /\ IF lat = None
                  THEN CityDone(NoCoordinatesRow(cities[city]))
                  ELSE BeginSweep(lat)
    /\ UNCHANGED <<op, scoreVars, searchVars, search_radius_km, search_step_km,
                   cities>>

(***************************************************************************)
(* The scorer called on its own (test_quality.py, test_quality_scoring).   *)
(***************************************************************************)
CalculateQualityScore ==
    /\ pc = "call"
    /\ UNCHANGED near_point
    /\ op = "_calculate_quality_score"
    /\ base' = IF RatingAbsent(restaurant.rating) THEN None
               ELSE CredibilityStep(restaurant.rating, restaurant.user_ratings_total)
    /\ quality_score' \in QualityScores(restaurant)
    /\ pc' = "returned"
    /\ UNCHANGED <<op, batchVars, restaurant, sweepVars, searchVars>>

(***************************************************************************)
(* calculate_city_quality_metrics called on a DataFrame (test_quality.py,  *)
(* line 73).                                                               *)
(***************************************************************************)
CalculateMetrics ==
    /\ pc = "call"
    /\ UNCHANGED near_point
    /\ op = "calculate_city_quality_metrics"
    /\ metrics' = CalculateCityQualityMetrics(df)
    /\ pc' = "returned"
    /\ UNCHANGED <<op, scoreVars, sweepVars, searchVars, geocode, cities, city,
                   results>>

(***************************************************************************)
(* Initial states and specifications.                                      *)
(***************************************************************************)
IdleScore ==
    /\ restaurant = NoRecord
    /\ base = None
    /\ quality_score = None

IdleBatch ==
    /\ metrics = NoMetrics
    /\ geocode = NoGeocode
    /\ cities = <<>>
    /\ city = 0
    /\ results = <<>>

IdleSweep ==
    /\ dx = 0 /\ dy = 0
    /\ all_restaurants = <<>>
    /\ search_points = 0
    /\ queried = <<>>
    /\ point_failed = FALSE
    /\ df = <<>>

IdleSearch ==
    /\ restaurants = <<>>
    /\ next_page_token = NoKey
    /\ page_count = 0
    /\ page_requests = 0
    /\ delays = 0
    /\ last_status = NoStatus
    /\ failed_at = 0
    /\ fetched = <<>>
    /\ sent = "<none>"
    /\ response_token = "<none>"
    /\ result = <<>>

IdleNearPoint == near_point = NearPointIdle

\* A sweep is about to be called.
SweepInit ==
    /\ op \in {"analyze_city_restaurant_quality", "get_restaurants_within_radius"}
    /\ pc = "call"
    /\ lat_c \in (IF op = "get_restaurants_within_radius" THEN {None} ELSE CenterLats)
    /\ \E g \in GridSpecs : search_radius_km = g[1] /\ search_step_km = g[2]
    /\ max_pages = None
    /\ IdleScore /\ IdleBatch /\ IdleSweep /\ IdleSearch /\ IdleNearPoint

\* A search is about to be called on its own, with or without max_pages.
SearchInit ==
    /\ op \in {"get_restaurants_with_quality", "get_restaurants_near_point"}
    /\ pc = "first_page"
    /\ max_pages \in 0..MaxPagesArg
    /\ lat_c = 37 /\ search_radius_km = 4 /\ search_step_km = 4
    /\ IdleScore /\ IdleBatch /\ IdleSweep /\ IdleSearch /\ IdleNearPoint

\* The scorer is about to be called on a record.
ScoreInit ==
    /\ op = "_calculate_quality_score"
    /\ pc = "call"
    /\ restaurant \in ScoredInputs
    /\ base = None /\ quality_score = None
    /\ max_pages = None
    /\ lat_c = 37 /\ search_radius_km = 4 /\ search_step_km = 4
    /\ IdleBatch /\ IdleSweep /\ IdleSearch /\ IdleNearPoint

\* The quality sweep is about to be called with a grid in which the radius
\* or the step is not positive.
MalformedGridSpecs ==
    {<<0, 4>>, <<4, 0>>, <<0, 0>>, <<4, -4>>, <<3, -4>>, <<-4, 4>>, <<-3, 4>>,
     <<-4, -4>>}

MalformedInit ==
    /\ op = "analyze_city_restaurant_quality"
    /\ pc = "call"
    /\ lat_c \in CenterLats
    /\ \E g \in MalformedGridSpecs : search_radius_km = g[1] /\ search_step_km = g[2]
    /\ max_pages = None
    /\ IdleScore /\ IdleBatch /\ IdleSweep /\ IdleSearch /\ IdleNearPoint

\* The metrics are about to be computed for a DataFrame.
MetricsInit ==
    /\ op = "calculate_city_quality_metrics"
    /\ pc = "call"
    /\ df \in SeqsUpTo(MetricRows, MaxRows)
    /\ IdleBatch
    /\ dx = 0 /\ dy = 0 /\ all_restaurants = <<>> /\ search_points = 0
    /\ queried = <<>> /\ point_failed = FALSE
    /\ max_pages = None
    /\ lat_c = 37 /\ search_radius_km = 4 /\ search_step_km = 4
    /\ IdleScore /\ IdleSearch /\ IdleNearPoint

\* analyze_cities_with_quality is about to be called on a list of cities;
\* the grid is Config's.
Cities == <<"Atherton", "Menlo Park">>

\* Config's grid: one with a single point, and one with a zero step.
ConfigGridSpecs == {<<3, 4>>, <<4, 0>>}

BatchInit ==
    /\ op = "analyze_cities_with_quality"
    /\ pc = "city"
    /\ cities = Cities
    /\ city = 1
    /\ results = <<>>
    /\ metrics = NoMetrics
    /\ geocode = NoGeocode
    /\ lat_c = None
    /\ \E g \in ConfigGridSpecs : search_radius_km = g[1] /\ search_step_km = g[2]
    /\ max_pages = None
    /\ IdleScore /\ IdleSweep /\ IdleSearch /\ IdleNearPoint

Init == SweepInit

Next == StartSweep \/ FirstPage \/ NextPage

Spec == Init /\ [][Next]_vars

SearchNext == FirstPage \/ NextPage

SearchSpec == SearchInit /\ [][SearchNext]_vars

\* get_restaurants_with_quality and get_restaurants_near_point are about
\* to be called with the same max_pages.
BothInit ==
    /\ op = "get_restaurants_with_quality"
    /\ pc = "first_page"
    /\ max_pages \in 0..MaxPagesArg
    /\ lat_c = 37 /\ search_radius_km = 4 /\ search_step_km = 4
    /\ IdleScore /\ IdleBatch /\ IdleSweep /\ IdleSearch
    /\ near_point = NearPointCall(max_pages)

BothNext == BothFirstPage \/ BothNextPage

BothSpec == BothInit /\ [][BothNext]_vars

ScoreNext == CalculateQualityScore

ScoreSpec == ScoreInit /\ [][ScoreNext]_vars

\* The scorer on its own and inside the quality sweep.
QualityInit ==
    \/ ScoreInit
    \/ SweepInit /\ op = "analyze_city_restaurant_quality"

QualityNext == CalculateQualityScore \/ StartSweep \/ FirstPage \/ NextPage

QualitySpec == QualityInit /\ [][QualityNext]_vars

MalformedSpec == MalformedInit /\ [][Next]_vars

\* The entry points that resolve the centre of a city themselves.
ResolverInit ==
    \/ SweepInit /\ op = "get_restaurants_within_radius" /\ search_radius_km = 3
    \/ BatchInit

ResolverNext == StartSweep \/ ResolveCity \/ FirstPage \/ NextPage

ResolverSpec == ResolverInit /\ [][ResolverNext]_vars

\* The documented sweep: radius 3 km and step 1 km, at a provider that has
\* nothing around any sample point (every search ends on its first
\* request with no record).
ScenarioGridSpecs == {<<12, 4>>}

ScenarioInit ==
    /\ op \in {"analyze_city_restaurant_quality", "get_restaurants_within_radius"}
    /\ pc = "call"
    /\ lat_c \in (IF op = "get_restaurants_within_radius" THEN {None} ELSE CenterLats)
    /\ \E g \in ScenarioGridSpecs : search_radius_km = g[1] /\ search_step_km = g[2]
    /\ max_pages = None
    /\ IdleScore /\ IdleBatch /\ IdleSweep /\ IdleSearch /\ IdleNearPoint

FirstPageEmpty ==
    /\ FirstPage
    /\ pc' # "paging"
    /\ all_restaurants' = all_restaurants

ScenarioNext == StartSweep \/ FirstPageEmpty

ScenarioSpec == ScenarioInit /\ [][ScenarioNext]_vars

MetricsNext == CalculateMetrics

MetricsSpec == MetricsInit /\ [][MetricsNext]_vars

(***************************************************************************)
(* Properties.                                                             *)
(***************************************************************************)
Max(a, b) == IF a >= b THEN a ELSE b

\* The offsets the loops have reached after a step, in loop order.
ReachedNext ==
    LET steps == Steps(search_radius_km, search_step_km)
    IN  IF lat_c' = None THEN <<>>
        ELSE SubSeq(Offsets(steps), 1, OffsetIndex(steps, dx', dy'))

WithinRadius(o) == InRadius(lat_c, search_radius_km, search_step_km, o[1], o[2])

WithinRadiusNext(o) == InRadius(lat_c', search_radius_km, search_step_km, o[1], o[2])

\* C1: in a sweep, whatever the queries at earlier points met, the sweep
\* never aborts, the searches issued so far are exactly one per offset
\* reached that passes the radius filter, in loop order, and a search that
\* fails on its first request adds nothing to the accumulated records.
C1_OneQueryPerPoint ==
    [][InSweep =>
         /\ pc' # "raised"
         /\ queried' = SelectSeq(ReachedNext, WithinRadiusNext)
         /\ search_points' = Len(queried') - (IF pc' = "done" THEN 0 ELSE 1)
         /\ (pc = "first_page" /\ point_failed' /\ search_points' = search_points + 1
               => all_restaurants' = all_restaurants)]_vars

\* A point's query failed and the sweep went on to search the next point.
C1_Witness ==
    /\ InSweep
    /\ pc = "first_page"
    /\ point_failed
    /\ Len(queried) >= 2
    /\ search_points = Len(queried) - 1

\* C2: a directly called search never raises; once a request has met a
\* transport failure the search has returned its list.
C2_NeverRaises ==
    ~InSweep =>
        /\ pc # "raised"
        /\ (failed_at # 0 => pc = "returned")

\* A follow-up page was answered with a quota-exceeded status and the
\* search returned.
C2_Witness ==
    /\ ~InSweep
    /\ pc = "returned"
    /\ page_requests >= 2
    /\ failed_at = 0
    /\ last_status = "OVER_QUERY_LIMIT"

\* A step in which a request is answered with a status other than OK.
NonOkResponseStep ==
    /\ ~InSweep
    /\ page_requests' = page_requests + 1
    /\ failed_at' = 0
    /\ last_status' # "OK"

\* C3: on every page, a response whose status is not OK contributes no
\* entity and ends the query: the search returns what it had before.
C3_NonOkEndsQuery ==
    [][NonOkResponseStep => pc' = "returned" /\ result' = restaurants]_vars

\* C4: a transport failure on the request for page k+1, k >= 1, makes the
\* search return exactly the entities of the pages 1..k it fetched, in
\* page order, and no further page is requested.
C4_PartialPagesKept ==
    ~InSweep /\ failed_at >= 2 =>
        /\ pc = "returned"
        /\ result \in ParseAll(Client, fetched)
        /\ page_requests = failed_at

\* Two pages were fetched, each with a place, and the third request failed.
C4_Witness ==
    /\ ~InSweep
    /\ pc = "returned"
    /\ failed_at = 3
    /\ Len(result) = 2
    /\ page_count = 2

\* C5 as stated: a search sends at most max_pages requests to the provider.
C5_AtMostMaxPages ==
    ~InSweep => page_requests <= max_pages

\* C5 amended: a search sends at most max(1, max_pages) requests: the
\* first request is sent whatever max_pages is, and a follow-up request
\* only while fewer than max_pages pages have been fetched.
C5_AtMostMaxPagesOrOne ==
    ~InSweep =>
        /\ page_requests <= Max(1, max_pages)
        /\ (pc = "paging" => page_count < max_pages)

\* The provider offered a further page and the search stopped at max_pages.
C5_Witness ==
    /\ ~InSweep
    /\ pc = "returned"
    /\ max_pages >= 2
    /\ page_requests = max_pages
    /\ next_page_token # NoKey

\* The positions of the first record of each place_id.
FirstOfId(rows) ==
    {i \in 1..Len(rows) : \A j \in 1..(i - 1) : rows[j].place_id # rows[i].place_id}

\* The k-th smallest member of a set of positions.
Kth(F, k) == CHOOSE i \in F : Cardinality({j \in F : j <= i}) = k

QualitySweepDone == op = "analyze_city_restaurant_quality" /\ pc = "done"

\* C6: the quality sweep returns one record per distinct place_id of the
\* accumulated records: the first record with that id, unchanged, and the
\* survivors in their accumulated order.
C6_FirstSeenWins ==
    QualitySweepDone =>
        LET F == FirstOfId(all_restaurants)
        IN  /\ Len(df) = Cardinality(F)
            /\ \A k \in 1..Len(df) : df[k] = all_restaurants[Kth(F, k)]

\* A sweep over several points accumulated two records with the same
\* place_id and different coordinates and returned the first one.
C6_Witness ==
    /\ QualitySweepDone
    /\ Len(queried) = 3
    /\ Len(all_restaurants) = 2
    /\ all_restaurants[1].place_id = "a"
    /\ all_restaurants[2].place_id = "a"
    /\ all_restaurants[1].lat # all_restaurants[2].lat
    /\ df = <<all_restaurants[1]>>

\* C7: two accumulated records that both have an empty place_id and
\* different coordinates are both in the result of the quality sweep.
C7_EmptyIdsKept ==
    QualitySweepDone =>
        \A i, j \in 1..Len(all_restaurants) :
            /\ all_restaurants[i].place_id = ""
            /\ all_restaurants[j].place_id = ""
            /\ <<all_restaurants[i].lat, all_restaurants[i].lng>>
                   # <<all_restaurants[j].lat, all_restaurants[j].lng>>
            => \E k \in 1..Len(df) : df[k] = all_restaurants[j]

ScoreReturned == op = "_calculate_quality_score" /\ pc = "returned"

\* C8: the scorer returns None exactly when the rating is absent, and
\* every record the quality sweep returns has a null quality_score
\* exactly when its rating is null.
C8_ScoreNoneIffUnrated ==
    /\ ScoreReturned => (quality_score = None <=> restaurant.rating = None)
    /\ QualitySweepDone =>
           \A k \in 1..Len(df) : df[k].quality_score = None <=> df[k].rating = None

\* An unrated record with a price level and reviews was scored None.
C8_Witness ==
    /\ ScoreReturned
    /\ restaurant.rating = None
    /\ restaurant.price_level = 2
    /\ restaurant.user_ratings_total = 10
    /\ quality_score = None

\* C9: whenever review_count is present, 0 included, the base before the
\* price step is rating * (0.7 + 0.3 * min(review_count / 100, 1.0)); only
\* an absent review_count leaves the base equal to the rating.
C9_CredibilityWheneverPresent ==
    ScoreReturned /\ restaurant.rating # None =>
        base = IF restaurant.user_ratings_total # None
               THEN restaurant.rating
                    * (7000 + 30 * Min(restaurant.user_ratings_total, 100))
               ELSE restaurant.rating * 10000

\* C10: the returned score is the credibility-weighted base times 1.05
\* for price_level 2 or 3, times 1.02 for price_level 4 and times 1 for
\* price_level 0, 1 or absent, rounded to two decimals afterwards: it is
\* within half a hundredth of that product.
C10_PriceStep ==
    ScoreReturned /\ restaurant.rating # None =>
        LET p == restaurant.price_level
            m == CASE p \in {2, 3} -> 105
                   [] p = 4 -> 102
                   [] p \in {None, 0, 1} -> 100
        IN  100000 * quality_score - base * m \in (-50000)..50000

\* A reviewed record of price level 4 was scored: 4.0 * 0.85 * 1.02 = 3.468.
C10_Witness ==
    /\ ScoreReturned
    /\ restaurant.rating = 40
    /\ restaurant.user_ratings_total = 50
    /\ restaurant.price_level = 4
    /\ base = 340000
    /\ quality_score = 347


Malformed == search_step_km <= 0 \/ search_radius_km <= 0

\* C11: a sweep called with a grid whose step or radius is not positive is
\* rejected before any network activity: it never issues a search request
\* and never returns a result.
C11_MalformedRejected ==
    InSweep /\ Malformed => queried = <<>> /\ page_requests = 0 /\ pc # "done"


\* The offset pairs of [-steps, steps] x [-steps, steps].
Square ==
    LET steps == Steps(search_radius_km, search_step_km)
    IN  {<<x, y>> : x \in (-steps)..steps, y \in (-steps)..steps}

SweepDone == InSweep /\ pc = "done"

\* A sweep around a resolved centre has finished.
GridSweepDone == SweepDone /\ lat_c # None

\* C13: the points a sweep queries are offset pairs of the square
\* [-steps, steps]^2 within the radius of the centre, each queried once;
\* none farther than the radius is queried, and when the sweep has finished
\* every pair within the radius, the centre among them, has been queried.
C13_ExactlyInRadiusQueried ==
    InSweep /\ lat_c # None =>
        /\ \A i \in 1..Len(queried) :
               /\ queried[i] \in Square
               /\ WithinRadius(queried[i])
               /\ \A j \in 1..Len(queried) : queried[j] = queried[i] => j = i
        /\ pc = "done" =>
               /\ \A o \in Square :
                      WithinRadius(o) => \E i \in 1..Len(queried) : queried[i] = o
               /\ \E i \in 1..Len(queried) : queried[i] = <<0, 0>>

\* A finished sweep whose square holds pairs inside and outside the radius.
C13_Witness ==
    /\ GridSweepDone
    /\ Len(queried) > 1
    /\ \E o \in Square : ~WithinRadius(o)

StepIsRadius == search_step_km = search_radius_km

\* C14 as stated: with step_km = radius_km the sweep queries exactly one
\* point, the centre, at any centre latitude.
C14_OnePointWhenStepIsRadius ==
    GridSweepDone /\ StepIsRadius => queried = <<<<0, 0>>>>

\* C14 as the code has it: with step_km = radius_km the sweep queries the
\* centre and, where one step east or west is within the radius, these two
\* neighbours, never a point north or south or a corner: the centre alone
\* at the equator, three points at latitude 37.
C14_CentreAndEastWest ==
    GridSweepDone /\ StepIsRadius =>
        /\ queried = IF WithinRadius(<<1, 0>>)
                     THEN <<<<-1, 0>>, <<0, 0>>, <<1, 0>>>>
                     ELSE <<<<0, 0>>>>
        /\ lat_c = 0 => Len(queried) = 1
        /\ lat_c = 37 => Len(queried) = 3

\* A finished sweep with step_km = radius_km at latitude 37.
C14_Witness ==
    /\ GridSweepDone
    /\ StepIsRadius
    /\ lat_c = 37
    /\ Len(queried) = 3


MetricsReturned == op = "calculate_city_quality_metrics" /\ pc = "returned"

\* The rows of df whose rating satisfies Cond.
RowsWhere(Cond(_)) == {i \in 1..Len(df) : Cond(df[i].rating)}

Rated(rating) == rating # None

RECURSIVE SumOver(_, _)
\* The sum of f over the index set I.
SumOver(f, I) ==
    IF I = {} THEN 0
    ELSE LET i == CHOOSE j \in I : TRUE IN f[i] + SumOver(f, I \ {i})

\* C15: for an empty set the metrics are returned (nothing is raised) with
\* total 0, every count 0 and both averages None.
C15_EmptyMetricsAllZero ==
    MetricsReturned /\ df = <<>> =>
        /\ metrics.total_restaurants = 0
        /\ metrics.high_rated_count = 0
        /\ metrics.low_rated_count = 0
        /\ metrics.expensive_count = 0
        /\ metrics.budget_count = 0
        /\ metrics.well_reviewed_count = 0
        /\ metrics.avg_rating = NoMean
        /\ metrics.avg_quality_score = NoMean

\* The metrics of the empty set have been returned.
C15_Witness == MetricsReturned /\ df = <<>> /\ metrics.total_restaurants = 0

TierOf(rating) ==
    CASE rating >= 45 -> "Excellent (4.5+)"
      [] rating >= 40 /\ rating < 45 -> "Very Good (4.0-4.4)"
      [] rating >= 35 /\ rating < 40 -> "Good (3.5-3.9)"
      [] rating >= 30 /\ rating < 35 -> "Average (3.0-3.4)"
      [] rating >= 0 /\ rating < 30 -> "Below Average (<3.0)"

Tiers == {"Excellent (4.5+)", "Very Good (4.0-4.4)", "Good (3.5-3.9)",
          "Average (3.0-3.4)", "Below Average (<3.0)"}

\* C16: whatever the input set, the returned metrics hold the entry
\* quality_categories with the five tiers, each counting the rated rows
\* whose rating falls in it.
C16_FiveTiersAlways ==
    MetricsReturned =>
        /\ "quality_categories" \in DOMAIN metrics
        /\ DOMAIN metrics.quality_categories = Tiers
        /\ \A t \in Tiers :
               metrics.quality_categories[t]
                   = Cardinality({i \in RowsWhere(Rated) : TierOf(df[i].rating) = t})

\* C17: avg_rating and avg_quality_score are the means over the rated
\* (scored) rows only, unrated rows being left out of the denominator, and
\* both are None for a set without a rated row.
C17_AveragesOverRated ==
    MetricsReturned =>
        LET rated  == RowsWhere(Rated)
            scored == {i \in 1..Len(df) : df[i].quality_score # None}
        IN  IF rated = {}
            THEN metrics.avg_rating = NoMean /\ metrics.avg_quality_score = NoMean
            ELSE /\ metrics.avg_rating
                      = <<SumOver([i \in rated |-> df[i].rating], rated),
                          Cardinality(rated)>>
                 /\ metrics.avg_quality_score
                      = <<SumOver([i \in scored |-> df[i].quality_score], scored),
                          Cardinality(scored)>>

\* Averages of a set of two rated rows and an unrated one.
C17_Witness ==
    /\ MetricsReturned
    /\ Cardinality(RowsWhere(Rated)) = 2
    /\ Len(df) = 3
    /\ metrics.avg_rating[2] = 2

\* C18: high_rated_count is the number of rows rated 4.0 or more and
\* low_rated_count the number rated under 3.0; rows rated in [3.0, 4.0) or
\* unrated count in neither, and high + low <= rated <= total.
C18_HighLowCounts ==
    MetricsReturned =>
        LET high == RowsWhere(LAMBDA x : x # None /\ x >= 40)
            low  == RowsWhere(LAMBDA x : x # None /\ x < 30)
        IN  /\ metrics.high_rated_count = Cardinality(high)
            /\ metrics.low_rated_count = Cardinality(low)
            /\ high \cap low = {}
            /\ metrics.high_rated_count + metrics.low_rated_count
                   <= Cardinality(RowsWhere(Rated))
            /\ Cardinality(RowsWhere(Rated)) <= metrics.total_restaurants

\* A set with a row rated exactly 4.0, a row rated in [3.0, 4.0) and an
\* unrated row.
C18_Witness ==
    /\ MetricsReturned
    /\ \E i, j, k \in 1..Len(df) :
           df[i].rating = 40 /\ df[j].rating = 35 /\ df[k].rating = None
    /\ metrics.high_rated_count = 1
    /\ metrics.low_rated_count = 0


RadiusSweepDone == op = "get_restaurants_within_radius" /\ pc = "done"

\* The multiple of 1e-5 degrees nearest to a coordinate in micro-degrees.
Nearest5(x) == (x + 5) \div 10

SameRoundedCoord(a, b) ==
    Nearest5(a.lat) = Nearest5(b.lat) /\ Nearest5(a.lng) = Nearest5(b.lng)

\* The positions of the first record of each rounded coordinate pair.
FirstOfCoord(rows) ==
    {i \in 1..Len(rows) : \A j \in 1..(i - 1) : ~SameRoundedCoord(rows[j], rows[i])}

\* C19: get_restaurants_within_radius returns, for every rounded
\* coordinate pair among the accumulated records, the first record with
\* that pair and no later one, whatever its name; the survivors are
\* unchanged (raw coordinates, name) and in their accumulated order.
C19_FirstPerCoordKey ==
    RadiusSweepDone =>
        LET F == FirstOfCoord(all_restaurants)
        IN  /\ Len(df) = Cardinality(F)
            /\ \A k \in 1..Len(df) : df[k] = all_restaurants[Kth(F, k)]

\* Two records with different names and raw coordinates that round to the
\* same pair were accumulated, and the first one was returned.
C19_Witness ==
    /\ RadiusSweepDone
    /\ Len(all_restaurants) = 2
    /\ all_restaurants[1].name # all_restaurants[2].name
    /\ all_restaurants[1].lat # all_restaurants[2].lat
    /\ SameRoundedCoord(all_restaurants[1], all_restaurants[2])
    /\ df = <<all_restaurants[1]>>

\* C20: under both key strategies the merge applied to the result of a
\* sweep, or to that result concatenated with itself, gives the result
\* again, same records in the same order.
C20_MergeIdempotent ==
    SweepDone =>
        /\ SweepResult(Client, df) = df
        /\ SweepResult(Client, df \o df) = df

\* A sweep whose merge dropped a record and kept one.
C20_Witness ==
    /\ SweepDone
    /\ Len(df) >= 1
    /\ Len(df) < Len(all_restaurants)
    /\ SweepResult(Client, df \o df) = df


ResolverFailed == geocode \in {"not_found", "raises"}

\* C12: when get_city_center fails for a city (no location, or an
\* exception), no search is issued for that city: get_restaurants_within_radius
\* returns an empty list with centre (None, None), and
\* analyze_cities_with_quality records the city without coordinates and
\* goes on to the next city.
C12_NoSearchWithoutCentre ==
    ResolverFailed =>
        /\ pc \in {"done", "city", "returned"}
        /\ queried = <<>>
        /\ search_points = 0
        /\ page_requests = 0
        /\ lat_c = None
        /\ df = <<>>
        /\ InBatch =>
               /\ Len(results) = city - 1
               /\ results[city - 1].City = cities[city - 1]
               /\ results[city - 1].status = "error: no coordinates"
               /\ results[city - 1].restaurant_count = None

\* The centre of the second city could not be resolved after the first
\* city had been swept.
C12_Witness ==
    /\ InBatch
    /\ ResolverFailed
    /\ Len(results) = 2
    /\ results[1].status = "success"
    /\ results[2].status = "error: no coordinates"


\* The scores of the record of this run with another rating or another
\* review count.
ScoresWithRating(rating) == QualityScores([restaurant EXCEPT !.rating = rating])

ScoresWithReviews(n) ==
    QualityScores([restaurant EXCEPT !.user_ratings_total = n])

\* C21: with review count and price level fixed, a higher rating never
\* scores lower, and the score of a rating in [0, 5] lies in [0, 5.25].
C21_MonotoneInRating ==
    ScoreReturned /\ restaurant.rating # None =>
        /\ quality_score >= 0
        /\ quality_score <= 525
        /\ \A r2 \in (restaurant.rating + 1)..50 :
               \A q2 \in ScoresWithRating(r2) : quality_score <= q2

\* A rating below 5.0 with reviews and a price bonus was scored.
C21_Witness ==
    /\ ScoreReturned
    /\ restaurant.rating = 49
    /\ restaurant.user_ratings_total = 100
    /\ restaurant.price_level = 2
    /\ quality_score = 515

\* C22: (4.8, 500 reviews, price 3) scores 5.04 and (4.7, 15 reviews,
\* price 2) scores 3.68; in general the score is the credibility- and
\* price-adjusted rating rounded to two decimals.
C22_Scenarios ==
    ScoreReturned =>
        /\ restaurant = [rating |-> 48, user_ratings_total |-> 500, price_level |-> 3]
               => quality_score = 504
        /\ restaurant = [rating |-> 47, user_ratings_total |-> 15, price_level |-> 2]
               => quality_score = 368
        /\ restaurant.rating # None =>
               2 * Abs(100000 * quality_score - base * PriceMultiplier(restaurant.price_level))
                   <= 100000

\* The second scenario was scored: 4.7 * 0.745 * 1.05 = 3.676575.
C22_Witness ==
    /\ ScoreReturned
    /\ restaurant = [rating |-> 47, user_ratings_total |-> 15, price_level |-> 2]
    /\ base = 350150
    /\ quality_score = 368

\* C29: with rating and price level fixed, a record with more reviews
\* never scores lower than one with fewer, over the present review counts
\* 0, 1, 2, ...
C29_MonotoneInReviews ==
    ScoreReturned /\ restaurant.rating # None
                  /\ restaurant.user_ratings_total # None =>
        \A n2 \in ReviewCounts \ {None} :
            n2 > restaurant.user_ratings_total =>
                \A q2 \in ScoresWithReviews(n2) : quality_score <= q2


\* The sweep of radius 3 km and step 1 km around a centre at latitude 37
\* has finished.
ScenarioDone ==
    /\ GridSweepDone
    /\ lat_c = 37
    /\ search_radius_km = 12
    /\ search_step_km = 4

IsQueried(o) == \E i \in 1..Len(queried) : queried[i] = o

\* C23: around (37.4419, -122.1430) with radius 3 km and step 1 km the
\* queried points contain the centre and the four cardinal neighbours, no
\* point farther than 3 km, and none of the corners (+-3, +-3).
C23_ScenarioGrid ==
    ScenarioDone =>
        /\ \A o \in {<<0, 0>>, <<1, 0>>, <<-1, 0>>, <<0, 1>>, <<0, -1>>} : IsQueried(o)
        /\ \A o \in {<<3, 3>>, <<3, -3>>, <<-3, 3>>, <<-3, -3>>} : ~IsQueried(o)
        /\ \A i \in 1..Len(queried) : WithinRadius(queried[i])

\* The scenario's sweep has searched its 31 points; three steps north,
\* 3.005 km away, is not one of them.
C23_Witness ==
    /\ ScenarioDone
    /\ Len(queried) = 31
    /\ IsQueried(<<3, 0>>)
    /\ ~IsQueried(<<0, 3>>)


\* A step of a directly called search in which a request is answered.
ResponseStep ==
    /\ ~InSweep
    /\ page_requests' = page_requests + 1
    /\ failed_at' = 0

\* A step of a directly called search that sends a follow-up request.
FollowUpStep ==
    /\ ~InSweep
    /\ page_requests >= 1
    /\ page_requests' = page_requests + 1

\* Every follow-up request goes out of the loop, carries the token of the
\* response just before it and never the location; a response without a
\* token ends the search with its records.
TokenChain ==
    /\ FollowUpStep =>
           /\ pc = "paging"
           /\ response_token \in Tokens
           /\ sent' = response_token
    /\ ResponseStep /\ response_token' = NoKey =>
           pc' = "returned" /\ result' = restaurants'

\* C24 as stated: after a response a follow-up request is issued exactly
\* when the response carried a token and fewer than max_pages pages have
\* been fetched; it carries the token of the response just before it.
C24_FollowUpIffToken ==
    [][/\ TokenChain
       /\ ResponseStep =>
              (pc' = "paging"
                   <=> response_token' # NoKey /\ page_requests' < max_pages')]_vars

\* C24 as the code has it: the first response is followed up exactly when
\* its status is OK, it carried a token and max_pages is more than 1; a
\* later response exactly when it carried a token and fewer than max_pages
\* pages have been fetched, whatever its status.
C24_FollowUpIffTokenAndFirstOk ==
    [][/\ TokenChain
       /\ ResponseStep =>
              (pc' = "paging"
                   <=> /\ response_token' # NoKey
                       /\ page_requests' < max_pages'
                       /\ (page_requests' = 1 => last_status' = "OK"))]_vars

\* Three pages were requested, the third with the token of the second
\* response, and the third response carried no token.
C24_Witness ==
    /\ ~InSweep
    /\ pc = "returned"
    /\ page_requests = 3
    /\ sent = "t2"
    /\ response_token = NoKey
    /\ failed_at = 0

\* C25: in one search the first request is not delayed and every follow-up
\* request is preceded by one settling delay: k requests, k - 1 delays.
C25_DelayPerTransition ==
    [][~InSweep =>
         /\ (page_requests = 0 /\ page_requests' = 1 => delays' = 0)
         /\ (FollowUpStep => delays' = delays + 1)
         /\ (page_requests' >= 1 => delays' = page_requests' - 1)]_vars

\* A search of three requests has slept twice.
C25_Witness ==
    /\ ~InSweep
    /\ page_requests = 3
    /\ delays = 2


\* The accumulated records the scorer has run on: _parse_restaurants_from_response
\* assigns quality_score to each record it builds.
ScoredRecords ==
    {i \in 1..Len(all_restaurants) : "quality_score" \in DOMAIN all_restaurants[i]}

\* C26: in the quality sweep no score is computed before the merge, after
\* it one score has been computed per returned record and none for a
\* record the merge discarded, and the merge does not start before every
\* grid point has been queried.
C26_ScoredAfterMerge ==
    op = "analyze_city_restaurant_quality" =>
        /\ pc # "done" => ScoredRecords = {} /\ df = <<>>
        /\ pc = "done" => Cardinality(ScoredRecords) = Len(df)


\* The (lat, lng, name) triples of a list of RestaurantQuality records.
TriplesOf(rows) ==
    [i \in 1..Len(rows) |->
        [lat |-> rows[i].lat, lng |-> rows[i].lng, name |-> rows[i].name]]

\* C27: given the same max_pages and the same outcome of every request,
\* the two clients are at the same place after every request, have sent
\* the same requests and slept as often, and get_restaurants_near_point
\* returns the triples of the records get_restaurants_with_quality
\* returns, in their order.
C27_ClientsEquivalent ==
    near_point.pc # "idle" =>
        /\ near_point.pc = pc
        /\ near_point.page_requests = page_requests
        /\ near_point.sent = sent
        /\ near_point.delays = delays
        /\ pc = "returned" => near_point.result = TriplesOf(result)

\* Both clients have returned the record of the first page after the
\* second request met a transport failure.
C27_Witness ==
    /\ near_point.pc = "returned"
    /\ pc = "returned"
    /\ failed_at = 2
    /\ near_point.delays = 1
    /\ Len(result) = 1
    /\ Len(near_point.result) = 1


\* C28: when some row is rated, the five tier counts add up to the number
\* of rated rows, Excellent and Very Good together are high_rated_count,
\* and Below Average is low_rated_count.
C28_TiersPartitionRated ==
    MetricsReturned /\ RowsWhere(Rated) # {} =>
        /\ "quality_categories" \in DOMAIN metrics
        /\ SumOver(metrics.quality_categories, Tiers)
               = Cardinality(RowsWhere(Rated))
        /\ metrics.quality_categories["Excellent (4.5+)"]
             + metrics.quality_categories["Very Good (4.0-4.4)"]
               = metrics.high_rated_count
        /\ metrics.quality_categories["Below Average (<3.0)"]
               = metrics.low_rated_count

\* Three rows: one unrated, one rated 4.5 and one rated below 3.0.
C28_Witness ==
    /\ MetricsReturned
    /\ Len(df) = 3
    /\ Cardinality(RowsWhere(Rated)) = 2
    /\ \E i \in 1..3 : df[i].rating = 45
    /\ metrics.quality_categories["Excellent (4.5+)"] = 1
    /\ metrics.quality_categories["Below Average (<3.0)"] = 1


ErrorStatuses ==
    {"error: no coordinates", "error: float division by zero", "error: write failed"}

\* C30: analyze_cities_with_quality holds one row for every city it has
\* finished, in the order of the cities, and returns only after the last
\* city; a row whose status is an error has restaurant_count None, the
\* row of an empty sweep has 'success - no restaurants' and count 0; no
\* outcome raises out of the loop or leaves it without a next step.
C30_OneRowPerCity ==
    InBatch =>
        /\ pc \in {"city", "first_page", "paging", "returned"}
        /\ Len(results) = city - 1
        /\ \A i \in 1..Len(results) :
              /\ results[i].City = cities[i]
              /\ results[i].status \in
                     ErrorStatuses \cup {"success - no restaurants", "success"}
              /\ results[i].status \in ErrorStatuses
                     <=> results[i].restaurant_count = None
              /\ results[i].status = "success - no restaurants"
                     <=> results[i].restaurant_count = 0
        /\ pc = "returned" <=> Len(results) = Len(cities)
        /\ pc # "returned" => ENABLED ResolverNext

\* The first city ended in an exception and the second was analyzed and
\* had no restaurants.
C30_Witness ==
    /\ InBatch
    /\ pc = "returned"
    /\ Len(results) = 2
    /\ results[1].status = "error: write failed"
    /\ results[2].status = "success - no restaurants"

====================
